---- MODULE Spec2Model ----
(***************************************************************************)
(* Model of src/lib/utils.ts of Magnify: debounce, deepMergeObjects,       *)
(* formUrlQuery, removeKeysFromQuery, handleError and download.            *)
(***************************************************************************)
EXTENDS Integers, Sequences, FiniteSets, TLC

VARIABLES
    now,        \* debounce: the event loop's clock
    delay,      \* debounce: the delay argument
    timers,     \* debounce: the platform's timer table, indexed by timer id
    timeoutId,  \* debounce: the closure variable timeoutId
    events,     \* debounce: history of wrapper calls and func invocations
    obj1,       \* deepMergeObjects: first argument
    obj2,       \* deepMergeObjects: second argument
    output,     \* deepMergeObjects: the value returned
    merged,     \* deepMergeObjects: whether the call has returned
    pathname,     \* window.location.pathname
    searchParams, \* query helpers: the query string, as its name=value pairs
    formKey,      \* formUrlQuery: key
    formValue,    \* formUrlQuery: value
    keysToRemove, \* removeKeysFromQuery: keysToRemove
    url,          \* query helpers: the string returned
    queryOp,      \* query helpers: which helper has returned, if any
    error,      \* handleError: the argument of the latest call
    console,    \* handleError: what console.error has been handed so far
    thrown,     \* handleError: the error the latest call threw, if any
    returned,   \* handleError: whether the latest call returned normally
    handled,    \* handleError: number of calls so far
    calls,      \* download: the calls made, each with how it ended for the caller
    fetched,    \* download: the URLs handed to fetch, in order
    chains,     \* download: the promise chain of each call that fetched
    logged,     \* download: what console.log has been handed
    unhandled   \* download: rejections no handler caught

dvars == <<now, delay, timers, timeoutId, events>>

mvars == <<obj1, obj2, output, merged>>

qvars ==
    <<pathname, searchParams, formKey, formValue, keysToRemove, url, queryOp>>

evars == <<error, console, thrown, returned, handled>>

lvars == <<calls, fetched, chains, logged, unhandled>>

vars == <<dvars, mvars, qvars, evars, lvars>>

notDebounce == <<mvars, qvars, evars, lvars>>

notMerge == <<dvars, qvars, evars, lvars>>

notQuery == <<dvars, mvars, evars, lvars>>

notError == <<dvars, mvars, qvars, lvars>>

notDownload == <<dvars, mvars, qvars, evars>>

----------------------------------------------------------------------------
(* Values and the states in which a part of the module is not in use       *)

\* `let timeoutId` starts undefined; timer ids handed out by setTimeout are
\* positive (browser) or objects (Node), hence always truthy.
Undefined == 0

\* JavaScript values: primitives, null, undefined, arrays and plain objects.
Scalar(n) == [t |-> "scalar", v |-> n]

Null == [t |-> "null", v |-> 0]

Undef == [t |-> "undefined", v |-> 0]

Arr(s) == [t |-> "array", v |-> s]

Obj(f) == [t |-> "object", v |-> f]

\* The state of a wrapper right after debounce(func, d) returned it.
DebounceFresh(d) ==
    /\ now = 0
    /\ delay = d
    /\ timers = <<>>
    /\ timeoutId = Undefined
    /\ events = <<>>

\* No merge is under way.
MergeQuiet ==
    /\ obj1 = Obj([k \in {} |-> Undef])
    /\ obj2 = Undef
    /\ output = Undef
    /\ merged = FALSE

Max(S) == CHOOSE x \in S : \A y \in S : y <= x

Min(S) == CHOOSE x \in S : \A y \in S : x <= y

Str(x) == [t |-> "string", v |-> x]

\* The string `${path}?${query}`, the query as its emitted parameters.
Url(path, query) == [path |-> path, query |-> query]

\* No query helper is in use.
QueryQuiet ==
    /\ pathname = "/"
    /\ searchParams = <<>>
    /\ formKey = ""
    /\ formValue = Undef
    /\ keysToRemove = <<>>
    /\ url = Url("", <<>>)
    /\ queryOp = "none"

\* A thrown exception; NoThrow when nothing was thrown.
Exception(name, message) == [name |-> name, message |-> message]

NoThrow == Exception("", "")

\* handleError has not been called.
ErrorQuiet ==
    /\ error = Undef
    /\ console = <<>>
    /\ thrown = NoThrow
    /\ returned = FALSE
    /\ handled = 0

\* download has not been called.
DownloadQuiet ==
    /\ calls = <<>>
    /\ fetched = <<>>
    /\ chains = <<>>
    /\ logged = <<>>
    /\ unhandled = {}

----------------------------------------------------------------------------
(* deepMergeObjects (src/lib/utils.ts:207-230)                             *)

NumScalars == 2
MaxArrLen == 1

Keys == {"a", "b"}

Scalars == {Scalar(n) : n \in 1..NumScalars}

SeqsUpTo(S, n) == UNION {[1..m -> S] : m \in 0..n}

Arrays == {Arr(s) : s \in SeqsUpTo(Scalars, MaxArrLen)}

MapsOver(V) == UNION {{Obj(f) : f \in [D -> V]} : D \in SUBSET Keys}

InnerMaps == MapsOver(Scalars \cup {Null})

TopValues == Scalars \cup {Null} \cup Arrays \cup InnerMaps

Mappings == MapsOver(TopValues)

\* The property names of array elements: "0", "1", ...
IndexNames == <<"0", "1", "2", "3", "4", "5">>

\* The own enumerable properties of a value, as seen by {...x}, for..in and
\* x[key]: an object's entries, an array's elements under their index names,
\* nothing for a primitive.
Props(x) ==
    IF x.t = "object" THEN x.v
    ELSE IF x.t = "array"
         THEN [k \in {IndexNames[i] : i \in 1..Len(x.v)} |->
                  x.v[CHOOSE i \in 1..Len(x.v) : IndexNames[i] = k]]
         ELSE [k \in {} |-> Undef]

\* x && typeof x === "object": arrays and objects, but not null.
IsTruthyObject(x) == x.t \in {"object", "array"}

RECURSIVE deepMergeOverlayWins(_, _)
\* A merge that lets obj2 win where both sides hold a value.
deepMergeOverlayWins(o1, o2) ==
    IF o2.t \in {"null", "undefined"} THEN o1
    ELSE LET p1 == Props(o1)
             p2 == Props(o2)
         IN  Obj([key \in DOMAIN p1 \cup DOMAIN p2 |->
                 IF key \in DOMAIN p2
                 THEN IF key \in DOMAIN p1 /\ IsTruthyObject(p1[key])
                         /\ IsTruthyObject(p2[key])
                      THEN deepMergeOverlayWins(p1[key], p2[key])
                      ELSE p2[key]
                 ELSE p1[key]])

RECURSIVE deepMergeDropsOverlayKeys(_, _)
\* A merge that starts from an empty output instead of {...obj2}.
deepMergeDropsOverlayKeys(o1, o2) ==
    IF o2.t \in {"null", "undefined"} THEN o1
    ELSE LET p1 == Props(o1)
             p2 == Props(o2)
         IN  Obj([key \in DOMAIN p1 |->
                 IF IsTruthyObject(p1[key]) /\ key \in DOMAIN p2
                    /\ IsTruthyObject(p2[key])
                 THEN deepMergeDropsOverlayKeys(p1[key], p2[key])
                 ELSE p1[key]])

RECURSIVE deepMergeObjects(_, _)
deepMergeObjects(o1, o2) ==
    IF o2.t \in {"null", "undefined"} THEN o1
    ELSE LET p1 == Props(o1)
             p2 == Props(o2)
         IN  \* output = { ...obj2 }, then every own key of obj1 is assigned
             Obj([key \in DOMAIN p1 \cup DOMAIN p2 |->
                 IF key \in DOMAIN p1
                 THEN IF IsTruthyObject(p1[key]) /\ key \in DOMAIN p2
                         /\ IsTruthyObject(p2[key])
                      THEN deepMergeObjects(p1[key], p2[key])
                      ELSE p1[key]
                 ELSE p2[key]])

MergeInit ==
    /\ obj1 \in Mappings
    /\ obj2 = Undef
    /\ output = Undef
    /\ merged = FALSE
    /\ DebounceFresh(0)
    /\ QueryQuiet
    /\ ErrorQuiet
    /\ DownloadQuiet

\* A caller merges obj1 with some overlay.
Merge ==
    /\ ~merged
    /\ \E o \in Mappings \cup {Null, Undef} :
          /\ obj2' = o
          /\ output' = deepMergeObjects(obj1, o)
    /\ merged' = TRUE
    /\ UNCHANGED <<obj1, notMerge>>

MergeNext == Merge

MergeSpec == MergeInit /\ [][MergeNext]_vars

----------------------------------------------------------------------------
(* Properties of deepMergeObjects                                          *)

EmptyObject == Obj([k \in {} |-> Undef])

IsScalar(x) == x.t = "scalar"

IsMapping(x) == x.t = "object"

RECURSIVE BaseWinsOnScalars(_, _, _)
\* r agrees with a on every key whose values are scalars in both a and b, and
\* with b on every key only b has, at every level reached through keys that
\* hold mappings in both a and b.
BaseWinsOnScalars(a, b, r) ==
    /\ IsMapping(r)
    /\ \A k \in DOMAIN b.v \ DOMAIN a.v :
          k \in DOMAIN r.v /\ r.v[k] = b.v[k]
    /\ \A k \in DOMAIN a.v \cap DOMAIN b.v :
          /\ k \in DOMAIN r.v
          /\ (IsScalar(a.v[k]) /\ IsScalar(b.v[k])) => r.v[k] = a.v[k]
          /\ (IsMapping(a.v[k]) /\ IsMapping(b.v[k]))
                => BaseWinsOnScalars(a.v[k], b.v[k], r.v[k])

\* C3: on a key present in both mappings with scalar values, at any depth
\* reached through mappings on both sides, the merge holds obj1's value;
\* keys only obj2 has keep obj2's value.
C3_BaseWinsScalarConflicts ==
    (merged /\ IsMapping(obj2)) => BaseWinsOnScalars(obj1, obj2, output)

\* A merge in which a top-level and a nested scalar conflict, and obj2 has a
\* nested key of its own.
C3_Witness ==
    /\ merged /\ IsMapping(obj2)
    /\ DOMAIN obj1.v = Keys /\ DOMAIN obj2.v = Keys
    /\ IsScalar(obj1.v["a"]) /\ IsScalar(obj2.v["a"])
    /\ obj1.v["a"] # obj2.v["a"]
    /\ IsMapping(obj1.v["b"]) /\ IsMapping(obj2.v["b"])
    /\ DOMAIN obj1.v["b"].v = {"a"} /\ DOMAIN obj2.v["b"].v = Keys
    /\ IsScalar(obj1.v["b"].v["a"]) /\ IsScalar(obj2.v["b"].v["a"])
    /\ obj1.v["b"].v["a"] # obj2.v["b"].v["a"]
    /\ output.v["b"].v["a"] = obj1.v["b"].v["a"]

\* C4: wherever obj1 holds an array, the merge holds that very array,
\* whatever obj2 holds under the key.
C4_ArraysAreOpaque ==
    (merged /\ IsMapping(obj2)) =>
        \A k \in DOMAIN obj1.v :
            obj1.v[k].t = "array" => output.v[k] = obj1.v[k]

\* C5: the empty mapping is a left and a right identity of the merge, and a
\* null or undefined obj2 gives back obj1.
C5_EmptyMappingIsIdentity ==
    merged =>
        /\ obj2 = EmptyObject => output = obj1
        /\ (obj1 = EmptyObject /\ IsMapping(obj2)) => output = obj2
        /\ obj2 \in {Null, Undef} => output = obj1

\* A mapping holding a nested mapping and an array was merged with {}.
C5_Witness ==
    /\ merged
    /\ obj2 = EmptyObject
    /\ DOMAIN obj1.v = Keys
    /\ IsMapping(obj1.v["a"]) /\ obj1.v["a"] # EmptyObject
    /\ obj1.v["b"].t = "array"
    /\ output = obj1

----------------------------------------------------------------------------
(* formUrlQuery and removeKeysFromQuery (src/lib/utils.ts:84-123)          *)

MaxParams == 3
MaxRemove == 2

QueryKeys == {"a", "b", "1", "2"}

QueryValues == {"x", "y"}

Pathnames == {"/", "/profile"}

\* One name=value pair of a query string.
Pair(k, v) == [k |-> k, v |-> v]

QueryStrings ==
    SeqsUpTo({Pair(k, v) : k \in QueryKeys, v \in QueryValues}, MaxParams)

\* A JavaScript object is the sequence of its entries in property order:
\* integer-like keys in ascending numeric order first, then the other keys
\* in the order in which they were created.
IsIndexKey(k) == \E i \in 1..Len(IndexNames) : IndexNames[i] = k

IndexOf(k) == CHOOSE i \in 1..Len(IndexNames) : IndexNames[i] = k

Has(o, k) == \E i \in 1..Len(o) : o[i].k = k

Get(o, k) == o[CHOOSE i \in 1..Len(o) : o[i].k = k].v

\* Insertion of a new property that ignores the integer-like key rule.
InsertPropAtEnd(o, k, val) == Append(o, Pair(k, val))

\* Creation of property k on an object that does not have it.
InsertProp(o, k, val) ==
    IF IsIndexKey(k)
    THEN LET before == SelectSeq(o, LAMBDA e :
                           IsIndexKey(e.k) /\ IndexOf(e.k) < IndexOf(k))
             after == SelectSeq(o, LAMBDA e :
                           ~(IsIndexKey(e.k) /\ IndexOf(e.k) < IndexOf(k)))
         IN  before \o <<Pair(k, val)>> \o after
    ELSE Append(o, Pair(k, val))

\* o[k] = val
SetProp(o, k, val) ==
    IF Has(o, k)
    THEN [i \in 1..Len(o) |-> IF o[i].k = k THEN Pair(k, val) ELSE o[i]]
    ELSE InsertProp(o, k, val)

\* delete o[k]
DeleteProp(o, k) == SelectSeq(o, LAMBDA e : e.k # k)

\* qs utils.combine: [].concat(a, b)
Combine(a, b) ==
    IF a.t = "array" THEN Arr(Append(a.v, b)) ELSE Arr(<<a.v, b>>)

RECURSIVE qsParseInto(_, _)
\* qs.parse: pairs are taken left to right; a repeated key collects its
\* values in an array; a parsed value is a string, never null.
qsParseInto(o, q) ==
    IF q = <<>> THEN o
    ELSE LET p == Head(q)
             o2 == IF Has(o, p.k)
                   THEN SetProp(o, p.k, Combine(Get(o, p.k), p.v))
                   ELSE SetProp(o, p.k, Str(p.v))
         IN  qsParseInto(o2, Tail(q))

qsParse(q) == qsParseInto(<<>>, q)

\* One emitted parameter: key, index inside an array value (-1 if none), value.
Param(k, i, v) == [k |-> k, i |-> i, v |-> v]

RECURSIVE qsStringify(_, _)
\* qs.stringify: the entries in property order; an array value is emitted
\* as k[0]=..&k[1]=..; null is skipped under skipNulls, else emitted as k=.
qsStringify(o, skipNulls) ==
    IF o = <<>> THEN <<>>
    ELSE LET e == Head(o)
             part == IF e.v.t = "array"
                     THEN [i \in 1..Len(e.v.v) |-> Param(e.k, i - 1, e.v.v[i])]
                     ELSE IF e.v.t \in {"null", "undefined"}
                     THEN IF skipNulls \/ e.v.t = "undefined"
                          THEN <<>>
                          ELSE <<Param(e.k, -1, "")>>
                     ELSE <<Param(e.k, -1, e.v.v)>>
         IN  part \o qsStringify(Tail(o), skipNulls)

formUrlQuery(path, sp, k, val) ==
    LET params == SetProp(qsParse(sp), k, val)
    IN  Url(path, qsStringify(params, TRUE))

\* A loop that stops after the first key.
DeleteFirstOnly(o, ks) ==
    IF ks = <<>> THEN o ELSE DeleteProp(o, Head(ks))

RECURSIVE DeleteAll(_, _)
\* keysToRemove.forEach((key) => { delete currentUrl[key]; })
DeleteAll(o, ks) ==
    IF ks = <<>> THEN o ELSE DeleteAll(DeleteProp(o, Head(ks)), Tail(ks))

\* currentUrl[key] == null && delete currentUrl[key], for every key
StripNullish(o) == SelectSeq(o, LAMBDA e : e.v.t \notin {"null", "undefined"})

removeKeysFromQuery(path, sp, ks) ==
    LET currentUrl == StripNullish(DeleteAll(qsParse(sp), ks))
    IN  Url(path, qsStringify(currentUrl, FALSE))

QueryInit ==
    /\ pathname \in Pathnames
    /\ searchParams \in QueryStrings
    /\ formKey = ""
    /\ formValue = Undef
    /\ keysToRemove = <<>>
    /\ url = Url("", <<>>)
    /\ queryOp = "none"
    /\ DebounceFresh(0)
    /\ MergeQuiet
    /\ ErrorQuiet
    /\ DownloadQuiet

FormUrlQuery ==
    /\ queryOp = "none"
    /\ \E k \in QueryKeys, val \in {Str(x) : x \in QueryValues} \cup {Null} :
          /\ formKey' = k
          /\ formValue' = val
          /\ url' = formUrlQuery(pathname, searchParams, k, val)
    /\ queryOp' = "form"
    /\ UNCHANGED <<pathname, searchParams, keysToRemove, notQuery>>

RemoveKeysFromQuery ==
    /\ queryOp = "none"
    /\ \E ks \in SeqsUpTo(QueryKeys, MaxRemove) :
          /\ keysToRemove' = ks
          /\ url' = removeKeysFromQuery(pathname, searchParams, ks)
    /\ queryOp' = "remove"
    /\ UNCHANGED <<pathname, searchParams, formKey, formValue, notQuery>>

QueryNext == FormUrlQuery \/ RemoveKeysFromQuery

QuerySpec == QueryInit /\ [][QueryNext]_vars

----------------------------------------------------------------------------
(* Properties of formUrlQuery and removeKeysFromQuery                      *)

\* The emitted parameters as plain name=value pairs.
AsPairs(out) == [i \in 1..Len(out) |-> Pair(out[i].k, out[i].v)]

Without(q, K) == SelectSeq(q, LAMBDA e : e.k \notin K)

ValuesOf(q, x) == LET sel == SelectSeq(q, LAMBDA e : e.k = x)
                  IN  [i \in 1..Len(sel) |-> sel[i].v]

FirstPos(q, x) == Min({i \in 1..Len(q) : q[i].k = x})

\* What the emitted parameters out retain of the query string q, the keys in
\* K aside: every key's values, in their order; integer-like keys first, in
\* ascending numeric order; the other keys in the order of their first
\* occurrence in q; a repeated key as the indexed list k[0], k[1], ...
KeptInPropertyOrder(out, q, K) ==
    /\ \A x \in QueryKeys \ K : ValuesOf(out, x) = ValuesOf(q, x)
    /\ \A i, j \in 1..Len(out) :
          (i < j /\ out[i].k \notin K /\ out[j].k \notin K) =>
             /\ IsIndexKey(out[j].k) =>
                   IsIndexKey(out[i].k) /\ IndexOf(out[i].k) <= IndexOf(out[j].k)
             /\ (~IsIndexKey(out[i].k) /\ out[i].k # out[j].k) =>
                   FirstPos(q, out[i].k) < FirstPos(q, out[j].k)
             /\ out[i].k = out[j].k => out[i].i < out[j].i
    /\ \A i \in 1..Len(out) :
          out[i].k \notin K =>
             LET n == Len(ValuesOf(q, out[i].k))
             IN  IF n = 1 THEN out[i].i = -1 ELSE out[i].i \in 0..(n - 1)

\* The query maps formKey to formValue exactly once, or not at all if null.
KeySetOnce(out) ==
    LET mine == SelectSeq(out, LAMBDA e : e.k = formKey)
    IN  IF formValue = Null THEN mine = <<>>
        ELSE mine = <<Param(formKey, -1, formValue.v)>>

\* C6 as stated: formKey maps to formValue exactly once (not at all if null)
\* and every other parameter of the query string is kept with its value and
\* in its original relative order.
C6_OthersKeepOriginalOrder ==
    queryOp = "form" =>
        /\ url.path = pathname
        /\ KeySetOnce(url.query)
        /\ AsPairs(Without(url.query, {formKey}))
              = Without(searchParams, {formKey})

\* C6 amended: formKey maps to formValue exactly once (not at all if null);
\* every other parameter keeps its value; keys that are not integer-like keep
\* the relative order of their first occurrence, integer-like keys come first
\* in ascending order, and a repeated key becomes one indexed list.
C6_OthersKeptInPropertyOrder ==
    queryOp = "form" =>
        /\ url.path = pathname
        /\ KeySetOnce(url.query)
        /\ KeptInPropertyOrder(url.query, searchParams, {formKey})

\* An existing key is overwritten in a query string that also holds an
\* integer-like key after a plain one.
C6_Witness ==
    /\ queryOp = "form"
    /\ searchParams = <<Pair("b", "x"), Pair("1", "y"), Pair("a", "x")>>
    /\ formKey = "a" /\ formValue = Str("y")
    /\ Len(url.query) = 3

RemovedSet == {keysToRemove[i] : i \in 1..Len(keysToRemove)}

PresentOnly(ks, q) == SelectSeq(ks, LAMBDA x : Has(q, x))

\* The result holds no removed key and no null value, and removing the keys
\* the query string does not have changes nothing.
RemovedAndClean(out) ==
    /\ \A i \in 1..Len(out) :
          out[i].k \notin RemovedSet /\ out[i].v \in QueryValues
    /\ url = removeKeysFromQuery(pathname, searchParams,
                                 PresentOnly(keysToRemove, searchParams))

\* C7 as stated: no removed key and no null value is left, and every other
\* parameter is kept with its value in the same relative order as in the
\* query string.
C7_RestKeepsOriginalOrder ==
    queryOp = "remove" =>
        /\ url.path = pathname
        /\ RemovedAndClean(url.query)
        /\ AsPairs(url.query) = Without(searchParams, RemovedSet)

\* C7 amended: no removed key and no null value is left; every other
\* parameter keeps its value; keys that are not integer-like keep the
\* relative order of their first occurrence, integer-like keys come first in
\* ascending order, and a repeated key becomes one indexed list.
C7_RestKeptInPropertyOrder ==
    queryOp = "remove" =>
        /\ url.path = pathname
        /\ RemovedAndClean(url.query)
        /\ KeptInPropertyOrder(url.query, searchParams, RemovedSet)

\* A present and an absent key are removed from a query string whose other
\* keys are integer-like and out of order.
C7_Witness ==
    /\ queryOp = "remove"
    /\ searchParams = <<Pair("b", "x"), Pair("2", "y"), Pair("1", "x")>>
    /\ keysToRemove = <<"b", "a">>
    /\ Len(url.query) = 2

----------------------------------------------------------------------------
(* handleError (src/lib/utils.ts:15-29)                                    *)

MaxHandled == 2

Messages == {"", "x", "plain"}

\* An instance of Error or of one of its subclasses.
ErrorInstance(name, message) == [t |-> "Error", v |-> message, name |-> name]

\* A plain object with the single property prop.
PlainObject(prop, val) == Obj([k \in {prop} |-> val])

BigInt(n) == [t |-> "bigint", v |-> n]

ErrorValues ==
    {ErrorInstance(n, m) : n \in {"Error", "RangeError"}, m \in Messages}
    \cup {Str(m) : m \in Messages}
    \cup {Scalar(42), Scalar(7), Null, Undef, BigInt(1)}
    \cup {PlainObject("message", Str(m)) : m \in Messages}
    \cup {PlainObject("code", Scalar(7)), Arr(<<Scalar(42)>>)}

Digits == <<"0", "1", "2", "3", "4", "5", "6", "7", "8", "9">>

RECURSIVE Decimal(_)
Decimal(n) ==
    IF n < 10 THEN Digits[n + 1] ELSE Decimal(n \div 10) \o Digits[(n % 10) + 1]

Quoted(str) == "\"" \o str \o "\""

\* JSON.stringify throws a TypeError on a BigInt.
Serializable(x) == x.t # "bigint"

RECURSIVE JsonStringify(_)
\* JSON.stringify inside a template literal, for the values of ErrorValues:
\* undefined serializes to undefined, which the template renders as such; an
\* Error instance has no enumerable own property.
JsonStringify(x) ==
    CASE x.t = "scalar" -> Decimal(x.v)
      [] x.t = "string" -> Quoted(x.v)
      [] x.t = "null" -> "null"
      [] x.t = "undefined" -> "undefined"
      [] x.t = "Error" -> "{}"
      [] x.t = "array" ->
            IF x.v = <<>> THEN "[]" ELSE "[" \o JsonStringify(x.v[1]) \o "]"
      [] x.t = "object" ->
            IF DOMAIN x.v = {} THEN "{}"
            ELSE LET prop == CHOOSE k \in DOMAIN x.v : TRUE
                 IN  "{" \o Quoted(prop) \o ":" \o JsonStringify(x.v[prop]) \o "}"

RECURSIVE Inspect(_)
\* What the console shows for a logged value (Node's util.inspect): a string
\* as it is, a number in decimal, an object or array in inspection format.
Inspect(x) ==
    CASE x.t = "scalar" -> Decimal(x.v)
      [] x.t = "string" -> x.v
      [] x.t = "null" -> "null"
      [] x.t = "undefined" -> "undefined"
      [] x.t = "bigint" -> Decimal(x.v) \o "n"
      [] x.t = "Error" -> x.name \o ": " \o x.v
      [] x.t = "array" ->
            IF x.v = <<>> THEN "[]" ELSE "[ " \o Inspect(x.v[1]) \o " ]"
      [] x.t = "object" ->
            IF DOMAIN x.v = {} THEN "{}"
            ELSE LET prop == CHOOSE k \in DOMAIN x.v : TRUE
                     val == x.v[prop]
                     shown == IF val.t = "string" THEN "'" \o val.v \o "'"
                              ELSE Inspect(val)
                 IN  "{ " \o prop \o ": " \o shown \o " }"

\* The outcome of one call: what console.error is handed and what is thrown.
Outcome(entries, exc) ==
    [logged |-> entries, thrown |-> exc, returned |-> FALSE]

\* A handler that throws without logging.
handleErrorSilently(err) ==
    IF err.t = "Error"
    THEN [logged |-> <<>>, thrown |-> Exception("Error", "Error: " \o err.v),
          returned |-> FALSE]
    ELSE IF err.t = "string"
    THEN [logged |-> <<>>, thrown |-> Exception("Error", "Error: " \o err.v),
          returned |-> FALSE]
    ELSE [logged |-> <<>>,
          thrown |-> IF Serializable(err)
                     THEN Exception("Error",
                                    "Unknown error: " \o JsonStringify(err))
                     ELSE Exception("TypeError", "cannot serialize"),
          returned |-> FALSE]

handleError(err) ==
    IF err.t = "Error"
    THEN \* error instanceof Error
         Outcome(<<Str(err.v)>>, Exception("Error", "Error: " \o err.v))
    ELSE IF err.t = "string"
    THEN Outcome(<<err>>, Exception("Error", "Error: " \o err.v))
    ELSE \* console.error(error), then the template with JSON.stringify(error)
         Outcome(<<err>>,
                 IF Serializable(err)
                 THEN Exception("Error", "Unknown error: " \o JsonStringify(err))
                 ELSE Exception("TypeError", "cannot serialize"))

ErrorInit ==
    /\ ErrorQuiet
    /\ DebounceFresh(0)
    /\ MergeQuiet
    /\ QueryQuiet
    /\ DownloadQuiet

\* Some caller hands a caught value to handleError.
HandleError ==
    /\ handled < MaxHandled
    /\ \E err \in ErrorValues :
          LET out == handleError(err)
          IN  /\ error' = err
              /\ console' = console \o out.logged
              /\ thrown' = out.thrown
              /\ returned' = out.returned
    /\ handled' = handled + 1
    /\ UNCHANGED notError

ErrorNext == HandleError

ErrorSpec == ErrorInit /\ [][ErrorNext]_vars

----------------------------------------------------------------------------
(* Properties of handleError                                               *)

HasMessageField(x) ==
    x.t = "Error" \/ (x.t = "object" /\ "message" \in DOMAIN x.v)

MessageField(x) == IF x.t = "Error" THEN x.v ELSE x.v["message"].v

\* C8 as stated: the call never returns; it logs exactly once, and what the
\* console shows is the derived message (the message field if the value has
\* one, the string if it is a string, else its serialization); it throws an error whose message is the
\* derived message behind "Error: " for the known shapes and behind
\* "Unknown error: " for the unknown one.
C8_LogsAndThrowsDerivedMessage ==
    handled > 0 =>
        LET known == HasMessageField(error) \/ error.t = "string"
            derived == IF HasMessageField(error) THEN MessageField(error)
                       ELSE IF error.t = "string" THEN error.v
                       ELSE JsonStringify(error)
        IN  /\ ~returned
            /\ Len(console) = handled
            /\ Inspect(console[handled]) = derived
            /\ thrown.message =
                  (IF known THEN "Error: " ELSE "Unknown error: ") \o derived

\* C8 amended: the call never returns and logs exactly once before it
\* throws.  For an Error instance it logs the message and throws
\* "Error: " + message; for a string it logs the string and throws
\* "Error: " + string; for any other value, a non-Error object with a message
\* field included, it logs the value itself and throws
\* "Unknown error: " + serialization, or the serializer's TypeError when the
\* value cannot be serialized.
C8_LogsOnceThenThrows ==
    handled > 0 =>
        /\ ~returned
        /\ thrown # NoThrow
        /\ Len(console) = handled
        /\ error.t = "Error" =>
              /\ console[handled] = Str(error.v)
              /\ thrown = Exception("Error", "Error: " \o error.v)
        /\ error.t = "string" =>
              /\ console[handled] = error
              /\ thrown = Exception("Error", "Error: " \o error.v)
        /\ error.t \notin {"Error", "string"} =>
              /\ console[handled] = error
              /\ Serializable(error) =>
                    thrown = Exception("Error",
                                 "Unknown error: " \o JsonStringify(error))
              /\ ~Serializable(error) => thrown.name = "TypeError"

\* After a first call that logged "x", a plain object with a message field
\* was handled and reported as an unknown error.
C8_Witness ==
    /\ handled = 2
    /\ error = PlainObject("message", Str("x"))
    /\ console[1] = Str("x")
    /\ thrown.message = "Unknown error: {\"message\":\"x\"}"

----------------------------------------------------------------------------
(* download (src/lib/utils.ts:181-200)                                     *)

MaxDownloads == 2

\* Strings are sequences of characters here, so that replace can be modelled.
Urls == {<<>>, <<"u">>}

NoFilename == <<"undefined">>

Filenames == {NoFilename, <<>>, <<"a">>, <<"a", " ", "b", " ", "c">>}

RECURSIVE ReplaceFirst(_, _, _)
\* str.replace(from, to) with a string pattern: the first occurrence only.
ReplaceFirst(str, from, to) ==
    IF str = <<>> THEN <<>>
    ELSE IF Head(str) = from THEN <<to>> \o Tail(str)
    ELSE <<Head(str)>> \o ReplaceFirst(Tail(str), from, to)

\* lines 193-195: the download attribute, set only for a non-empty filename.
DownloadAttribute(filename) ==
    IF filename # NoFilename /\ Len(filename) > 0
    THEN ReplaceFirst(filename, " ", "_") \o <<".png">>
    ELSE <<>>

\* A chain without the trailing .catch: the rejection stays unhandled.
OnRejectedUncaught(c) == [c EXCEPT !.stage = "unhandled"]

\* line 199: .catch((error) => console.log({ error })) settles the chain.
OnRejected(c) == [c EXCEPT !.stage = "dropped"]

\* download(url, filename), up to its return to the caller.
Download(u, f) ==
    /\ Len(calls) < MaxDownloads
    /\ IF u = <<>>
       THEN \* if (!url) throw new Error(...)
            /\ calls' = Append(calls, [url |-> u, ended |-> "threw", chain |-> 0])
            /\ UNCHANGED <<fetched, chains>>
       ELSE \* fetch(url).then(..).then(..).catch(..); the call returns
            /\ fetched' = Append(fetched, u)
            /\ chains' = Append(chains, [url |-> u, filename |-> f,
                                         stage |-> "fetching", failedAt |-> "",
                                         download |-> <<>>, clicked |-> FALSE])
            /\ calls' = Append(calls, [url |-> u, ended |-> "returned",
                                       chain |-> Len(chains) + 1])
    /\ UNCHANGED <<logged, unhandled, notDownload>>

DownloadCalled == \E u \in Urls, f \in Filenames : Download(u, f)

InStage(i, st) == i \in 1..Len(chains) /\ chains[i].stage = st

Fail(i, at) ==
    /\ chains' = [chains EXCEPT ![i] = [@ EXCEPT !.stage = "rejected",
                                                 !.failedAt = at]]
    /\ UNCHANGED <<calls, fetched, logged, unhandled, notDownload>>

\* fetch resolves with a response; response.blob() is started.
FetchResolves ==
    \E i \in 1..Len(chains) :
       /\ InStage(i, "fetching")
       /\ chains' = [chains EXCEPT ![i].stage = "reading"]
       /\ UNCHANGED <<calls, fetched, logged, unhandled, notDownload>>

\* fetch rejects (network failure).
FetchRejects == \E i \in 1..Len(chains) : InStage(i, "fetching") /\ Fail(i, "fetch")

\* response.blob() resolves; the second callback builds the anchor and clicks.
BlobSaved ==
    \E i \in 1..Len(chains) :
       /\ InStage(i, "reading")
       /\ chains' = [chains EXCEPT ![i] =
                        [@ EXCEPT !.stage = "saved",
                                  !.download =
                                      DownloadAttribute(chains[i].filename),
                                  !.clicked = TRUE]]
       /\ UNCHANGED <<calls, fetched, logged, unhandled, notDownload>>

\* response.blob() rejects.
BlobRejects == \E i \in 1..Len(chains) : InStage(i, "reading") /\ Fail(i, "blob")

\* The second callback throws before a.click() (createObjectURL, appendChild).
SaveThrows == \E i \in 1..Len(chains) : InStage(i, "reading") /\ Fail(i, "save")

\* The rejection reaches the end of the chain.
RejectionSettles ==
    \E i \in 1..Len(chains) :
       /\ InStage(i, "rejected")
       /\ LET c == OnRejected(chains[i])
          IN  /\ chains' = [chains EXCEPT ![i] = c]
              /\ IF c.stage = "dropped"
                 THEN logged' = Append(logged, [chain |-> i, error |-> c.failedAt])
                      /\ UNCHANGED unhandled
                 ELSE unhandled' = unhandled \cup {i} /\ UNCHANGED logged
       /\ UNCHANGED <<calls, fetched, notDownload>>

DownloadInit ==
    /\ DownloadQuiet
    /\ DebounceFresh(0)
    /\ MergeQuiet
    /\ QueryQuiet
    /\ ErrorQuiet

DownloadNext ==
    \/ DownloadCalled
    \/ FetchResolves
    \/ FetchRejects
    \/ BlobSaved
    \/ BlobRejects
    \/ SaveThrows
    \/ RejectionSettles

DownloadSpec == DownloadInit /\ [][DownloadNext]_vars

----------------------------------------------------------------------------
(* Properties of download                                                  *)

NonEmptyCalls == SelectSeq(calls, LAMBDA c : c.url # <<>>)

LogsOf(i) == SelectSeq(logged, LAMBDA l : l.chain = i)

\* C9: a call with an empty URL throws to its caller and fetches nothing;
\* any other call returns normally, whatever becomes of its chain, having
\* issued exactly one fetch; a chain that failed never clicked, and once its
\* failure is settled it has been logged exactly once and escalated nowhere.
C9_DownloadIsBestEffort ==
    /\ \A n \in 1..Len(calls) :
          IF calls[n].url = <<>>
          THEN calls[n].ended = "threw" /\ calls[n].chain = 0
          ELSE calls[n].ended = "returned"
    /\ fetched = [n \in 1..Len(NonEmptyCalls) |-> NonEmptyCalls[n].url]
    /\ Len(chains) = Len(fetched)
    /\ unhandled = {}
    /\ \A i \in 1..Len(chains) :
          /\ chains[i].failedAt # "" =>
                ~chains[i].clicked /\ chains[i].stage \in {"rejected", "dropped"}
          /\ chains[i].stage = "dropped" => Len(LogsOf(i)) = 1
          /\ chains[i].failedAt = "" => LogsOf(i) = <<>>

\* One call threw on the empty URL; another returned and its chain failed
\* while reading the body, was logged and dropped.
C9_Witness ==
    /\ Len(calls) = 2
    /\ calls[1].ended = "threw"
    /\ calls[2].ended = "returned"
    /\ Len(chains) = 1
    /\ chains[1].stage = "dropped" /\ chains[1].failedAt = "blob"
    /\ Len(logged) = 1

----------------------------------------------------------------------------
(* debounce (src/lib/utils.ts:133-146)                                     *)

MaxCalls == 3
MaxTime == 4
MaxDelay == 2
NumArgs == 2

Args == 1..NumArgs

Truthy(x) == x # 0

Live(ts) == {i \in 1..Len(ts) : ts[i].status = "live"}

\* clearTimeout(id): cancels the timer if it is still live, otherwise no-op.
ClearTimeout(ts, id) ==
    IF id \in Live(ts) THEN [ts EXCEPT ![id].status = "cleared"] ELSE ts

\* setTimeout(cb, delay): a new live timer, due `d` after the current time.
SetTimeout(ts, a, d) ==
    Append(ts, [deadline |-> now + d, args |-> a, status |-> "live"])

\* A wrapper that forgets to cancel the previous schedule.
CancelPendingNever(ts, tid) == ts

\* line 143: if (timeoutId) clearTimeout(timeoutId);
CancelPending(ts, tid) ==
    IF Truthy(tid) THEN ClearTimeout(ts, tid) ELSE ts

NumCallEvents == Cardinality({i \in 1..Len(events) : events[i].type = "call"})

\* The arrow function returned by debounce, called with argument a.
Call(a) ==
    /\ NumCallEvents < MaxCalls
    /\ now + delay <= MaxTime
    /\ LET cleared == CancelPending(timers, timeoutId)
           ts == SetTimeout(cleared, a, delay)
       IN  /\ timers' = ts
           /\ timeoutId' = Len(ts)
    /\ events' = Append(events, [type |-> "call", t |-> now, args |-> a])
    /\ UNCHANGED <<now, delay, notDebounce>>

DebouncedCall == \E a \in Args : Call(a)

\* The event loop runs a due timer's callback: () => func.apply(null, args).
Fire(id) ==
    /\ id \in Live(timers)
    /\ now >= timers[id].deadline
    /\ timers' = [timers EXCEPT ![id].status = "fired"]
    /\ events' = Append(events, [type |-> "fire", t |-> now,
                                 args |-> timers[id].args])
    /\ UNCHANGED <<now, delay, timeoutId, notDebounce>>

TimerFires == \E id \in 1..Len(timers) : Fire(id)

\* Time passes; a due callback may run late (the event loop may be busy).
Tick ==
    /\ now < MaxTime
    /\ now' = now + 1
    /\ UNCHANGED <<delay, timers, timeoutId, events, notDebounce>>

DebounceInit ==
    /\ \E d \in 0..MaxDelay : DebounceFresh(d)
    /\ MergeQuiet
    /\ QueryQuiet
    /\ ErrorQuiet
    /\ DownloadQuiet

DebounceNext == DebouncedCall \/ TimerFires \/ Tick

DebounceSpec == DebounceInit /\ [][DebounceNext]_vars

DebounceFairSpec ==
    DebounceInit /\ [][DebounceNext]_vars /\ WF_vars(TimerFires) /\ WF_vars(Tick)

----------------------------------------------------------------------------
(* Properties of debounce                                                  *)

CallIdx == {i \in 1..Len(events) : events[i].type = "call"}

FireIdx == {i \in 1..Len(events) : events[i].type = "fire"}

PrevCall(i) == LET S == {j \in CallIdx : j < i} IN IF S = {} THEN 0 ELSE Max(S)

NextCall(i) ==
    LET S == {j \in CallIdx : j > i} IN IF S = {} THEN Len(events) + 1 ELSE Min(S)

FiresBetween(i, j) == {f \in FireIdx : i < f /\ f < j}

Pending == Live(timers) # {}

Idle == Live(timers) = {}

\* C1: in a burst of calls in which each call arrives before the delay has
\* elapsed since the previous one, func is not invoked between the calls; it
\* is invoked at most once after the burst's last call, with that call's
\* arguments, and exactly once as soon as no schedule is pending any more.
C1_BurstInvokesOnceWithLastArgs ==
    /\ \A i \in CallIdx :
          LET p == PrevCall(i) IN
          (p > 0 /\ events[i].t - events[p].t < delay)
              => FiresBetween(p, i) = {}
    /\ \A j \in CallIdx :
          LET F == FiresBetween(j, NextCall(j)) IN
          /\ Cardinality(F) <= 1
          /\ \A f \in F : events[f].args = events[j].args
          /\ (NextCall(j) = Len(events) + 1 /\ Idle) => Cardinality(F) = 1

\* A burst of three calls with differing arguments, each within the delay of
\* the previous one, has been followed by its invocation.
C1_Witness ==
    /\ Len(events) = 4
    /\ \A i \in 1..3 : events[i].type = "call"
    /\ events[2].t - events[1].t < delay
    /\ events[3].t - events[2].t < delay
    /\ events[2].t > events[1].t
    /\ events[1].args # events[3].args
    /\ events[4].type = "fire"
    /\ Idle

\* C2: at most one scheduled invocation is live at any time, and it is the
\* one the wrapper's timeoutId names (every earlier one has been cancelled
\* or has fired).
C2_AtMostOnePending ==
    /\ Cardinality(Live(timers)) <= 1
    /\ Live(timers) \subseteq {timeoutId}

\* A call arrived while a schedule was pending: the old one is cancelled and
\* the new one is live.
C2_Witness ==
    /\ Len(timers) >= 2
    /\ timers[1].status = "cleared"
    /\ timers[Len(timers)].status = "live"

IsCallStep == Len(events') = Len(events) + 1 /\ events'[Len(events')].type = "call"

IsFireStep == Len(events') = Len(events) + 1 /\ events'[Len(events')].type = "fire"

\* C10: the wrapper is a two-state machine.  A call, in idle or in pending,
\* leaves it pending with exactly the newly installed schedule live; func is
\* invoked only while pending and the invocation leaves the wrapper idle;
\* and every schedule, unless a further call replaces it, eventually fires.
C10_IdlePendingMachine ==
    /\ [][/\ IsCallStep =>
                /\ timeoutId' = Len(timers) + 1
                /\ Live(timers)' = {timeoutId'}
          /\ IsFireStep =>
                /\ Pending
                /\ Idle'
                /\ timers'[timeoutId].status = "fired"
          /\ (Idle /\ Idle') => events' = events]_vars
    /\ \A n \in 1..MaxCalls :
          (Len(timers) >= n /\ timers[n].status = "live")
              ~> (Len(timers) >= n
                    /\ (timers[n].status = "fired" \/ Len(timers) > n))

\* A schedule fired, a later call started a fresh one, and that one fired too.
C10_Witness ==
    /\ Len(events) = 4
    /\ events[1].type = "call" /\ events[2].type = "fire"
    /\ events[3].type = "call" /\ events[4].type = "fire"
    /\ Idle

====
